---- MODULE Spec2Model ----
(***************************************************************************)
(* Model of the zgrab2 banner scanner (modules/banner/scanner.go) and of   *)
(* the TLS scanner (modules/tls.go).                                       *)
(*                                                                         *)
(* Texts and byte slices are sequences of byte values (a Go string is a    *)
(* byte sequence).  A nil pointer / nil interface / nil error is the empty *)
(* sequence Nil, a non-nil one is a one-element sequence holding the value.*)
(***************************************************************************)
EXTENDS Integers, Sequences, FiniteSets, TLC

(***************************************************************************)
(* Bounds of the model.                                                    *)
(***************************************************************************)
\* largest configured --max-tries
MaxTriesBound == 2
\* longest response returned by one read
MaxRespLen == 2
\* longest certificate chain in a TLS log
MaxChain == 1

Nil == <<>>
Some(x) == <<x>>
IsNil(p) == p = <<>>
Deref(p) == p[1]

(***************************************************************************)
(* Library conversions used by the scanners, computed as the Go standard   *)
(* library computes them.                                                  *)
(***************************************************************************)

\* encoding/base64 StdEncoding alphabet: value 0..63 -> character
B64Char(i) ==
    IF i < 26 THEN 65 + i
    ELSE IF i < 52 THEN 97 + (i - 26)
    ELSE IF i < 62 THEN 48 + (i - 52)
    ELSE IF i = 62 THEN 43 ELSE 47

\* character -> value 0..63, or -1 when the character is not in the alphabet
B64Index(ch) ==
    IF ch >= 65 /\ ch <= 90 THEN ch - 65
    ELSE IF ch >= 97 /\ ch <= 122 THEN ch - 97 + 26
    ELSE IF ch >= 48 /\ ch <= 57 THEN ch - 48 + 52
    ELSE IF ch = 43 THEN 62
    ELSE IF ch = 47 THEN 63
    ELSE -1

\* base64.StdEncoding.EncodeToString
RECURSIVE EncodeToString(_)
EncodeToString(b) ==
    IF Len(b) = 0 THEN <<>>
    ELSE IF Len(b) = 1 THEN
        LET n == b[1] * 65536
        IN <<B64Char(n \div 262144), B64Char((n \div 4096) % 64), 61, 61>>
    ELSE IF Len(b) = 2 THEN
        LET n == b[1] * 65536 + b[2] * 256
        IN <<B64Char(n \div 262144), B64Char((n \div 4096) % 64),
             B64Char((n \div 64) % 64), 61>>
    ELSE
        LET n == b[1] * 65536 + b[2] * 256 + b[3]
        IN <<B64Char(n \div 262144), B64Char((n \div 4096) % 64),
             B64Char((n \div 64) % 64), B64Char(n % 64)>>
           \o EncodeToString(SubSeq(b, 4, Len(b)))

\* the decoder skips '\r' and '\n'
StripNewlines(s) == SelectSeq(s, LAMBDA ch : ch # 10 /\ ch # 13)

\* one 4-character quantum; last is TRUE for the final quantum, the only one
\* that may end in padding
DecodeQuantum(q, last) ==
    LET v1 == B64Index(q[1])
        v2 == B64Index(q[2])
        v3 == B64Index(q[3])
        v4 == B64Index(q[4])
    IN IF v1 < 0 \/ v2 < 0 THEN [bytes |-> <<>>, ok |-> FALSE]
       ELSE IF q[3] = 61 THEN
            IF last /\ q[4] = 61
            THEN [bytes |-> <<(v1 * 4 + v2 \div 16) % 256>>, ok |-> TRUE]
            ELSE [bytes |-> <<>>, ok |-> FALSE]
       ELSE IF v3 < 0 THEN [bytes |-> <<>>, ok |-> FALSE]
       ELSE IF q[4] = 61 THEN
            IF last
            THEN [bytes |-> <<(v1 * 4 + v2 \div 16) % 256,
                              ((v2 % 16) * 16 + v3 \div 4) % 256>>, ok |-> TRUE]
            ELSE [bytes |-> <<>>, ok |-> FALSE]
       ELSE IF v4 < 0 THEN [bytes |-> <<>>, ok |-> FALSE]
       ELSE [bytes |-> <<(v1 * 4 + v2 \div 16) % 256,
                         ((v2 % 16) * 16 + v3 \div 4) % 256,
                         ((v3 % 4) * 64 + v4) % 256>>, ok |-> TRUE]

RECURSIVE DecodeQuanta(_)
DecodeQuanta(s) ==
    IF Len(s) = 0 THEN [bytes |-> <<>>, ok |-> TRUE]
    ELSE IF Len(s) < 4 THEN [bytes |-> <<>>, ok |-> FALSE]
    ELSE LET q == DecodeQuantum(SubSeq(s, 1, 4), Len(s) = 4)
         IN IF ~q.ok THEN q
            ELSE LET r == DecodeQuanta(SubSeq(s, 5, Len(s)))
                 IN [bytes |-> q.bytes \o r.bytes, ok |-> r.ok]

\* base64.StdEncoding.DecodeString: ok is FALSE when it returns an error
DecodeString(s) == DecodeQuanta(StripNewlines(s))

\* encoding/hex EncodeToString: two lower-case digits per byte
HexDigit(n) == IF n < 10 THEN 48 + n ELSE 87 + n

RECURSIVE HexEncodeToString(_)
HexEncodeToString(b) ==
    IF Len(b) = 0 THEN <<>>
    ELSE <<HexDigit(b[1] \div 16), HexDigit(b[1] % 16)>>
         \o HexEncodeToString(Tail(b))

\* strconv.FormatUint(n, 10)
RECURSIVE FormatUint(_)
FormatUint(n) ==
    IF n < 10 THEN <<48 + n>>
    ELSE FormatUint(n \div 10) \o <<48 + (n % 10)>>

\* big.Int.Uint64 on a 64-bit build: the least significant word of the
\* magnitude (abs, little-endian words), 0 for the empty magnitude
Uint64(serial) == IF Len(serial.abs) = 0 THEN 0 ELSE serial.abs[1]

\* bytes.Contains
Contains(b, sub) ==
    \E i \in 0..(Len(b) - Len(sub)) : SubSeq(b, i + 1, i + Len(sub)) = sub

HasPrefix(b, pre) ==
    Len(pre) <= Len(b) /\ SubSeq(b, 1, Len(pre)) = pre

\* strconv.Unquote of the probe wrapped in double quotes: the escapes \n, \r,
\* \t, \\ and \" are interpreted; a raw double quote, a raw newline, a
\* trailing backslash or any other escape is a syntax error
RECURSIVE Unquote(_)
Unquote(s) ==
    IF Len(s) = 0 THEN [str |-> <<>>, ok |-> TRUE]
    ELSE IF s[1] = 34 \/ s[1] = 10 THEN [str |-> <<>>, ok |-> FALSE]
    ELSE IF s[1] = 92 THEN
        IF Len(s) < 2 THEN [str |-> <<>>, ok |-> FALSE]
        ELSE LET e == s[2]
                 ch == IF e = 110 THEN 10
                       ELSE IF e = 114 THEN 13
                       ELSE IF e = 116 THEN 9
                       ELSE IF e = 92 THEN 92
                       ELSE IF e = 34 THEN 34
                       ELSE -1
                 r == Unquote(SubSeq(s, 3, Len(s)))
             IN IF ch < 0 THEN [str |-> <<>>, ok |-> FALSE]
                ELSE [str |-> <<ch>> \o r.str, ok |-> r.ok]
    ELSE LET r == Unquote(Tail(s))
         IN [str |-> <<s[1]>> \o r.str, ok |-> r.ok]

\* regexp.Compile on the patterns that occur in the model: an optional
\* leading '^' followed by literal characters; '(' without ')' does not
\* compile
Compile(p) ==
    IF \E i \in 1..Len(p) : p[i] = 40 THEN [ok |-> FALSE, anchored |-> FALSE, lit |-> <<>>]
    ELSE IF Len(p) > 0 /\ p[1] = 94
         THEN [ok |-> TRUE, anchored |-> TRUE, lit |-> Tail(p)]
         ELSE [ok |-> TRUE, anchored |-> FALSE, lit |-> p]

\* Regexp.Match
Match(re, b) == IF re.anchored THEN HasPrefix(b, re.lit) ELSE Contains(b, re.lit)


(***************************************************************************)
(* Values of the framework package the scanners use.                       *)
(***************************************************************************)
SCAN_SUCCESS == "success"
SCAN_SUCCESS_NOTCONTAIN == "success-not-contain"
SCAN_PROTOCOL_ERROR == "protocol-error"

EOF == "EOF"
NoMatchError == "pattern did not match"
ErrMismatchedFlags == "mismatched flags"

\* errors a connection operation reports
Errors == {"timeout", "refused"}

\* zgrab2.TryGetScanStatus for a non-nil error
TryGetScanStatus(e) ==
    IF e = "timeout" THEN "connection-timeout"
    ELSE IF e = "refused" THEN "connection-refused"
    ELSE IF e = EOF THEN "io-timeout"
    ELSE "unknown-error"

(***************************************************************************)
(* Configurations.                                                         *)
(***************************************************************************)
BannerType == "*banner.Flags"
TLSType == "*modules.TLSFlags"

\* Module.NewFlags: a zero-valued banner.Flags
BannerNewFlags ==
    [type |-> BannerType, Probe |-> <<>>, Pattern |-> <<>>, MaxTries |-> 0,
     UseTLS |-> FALSE, OnlyBASE64 |-> FALSE, ProbeBASE64 |-> <<>>,
     SingleContains |-> <<>>, SingleContainsString |-> <<>>]

\* TLSModule.NewFlags: a zero-valued TLSFlags
TLSNewFlags ==
    [type |-> TLSType, FilterFingerprintMD5 |-> <<>>, FilterFingerprintSHA1 |-> <<>>,
     FilterFingerprintSHA256 |-> <<>>, FilterFingerprintSerial |-> <<>>]

\* (probe, single-payload) pairs: none, `\n`, "YQ==", a trailing backslash,
\* invalid base64
ProbePairs ==
    { <<<<>>, <<>>>>, <<<<92, 110>>, <<>>>>, <<<<>>, <<89, 81, 61, 61>>>>,
      <<<<92>>, <<>>>>, <<<<>>, <<33>>>> }

\* patterns: empty, ^a, b, and one that does not compile
Patterns == { <<>>, <<94, 97>>, <<98>>, <<40>> }

\* single-contain: none, "YQ==" (the byte a), "!" (not base64)
SingleContainsValues == { <<>>, <<89, 81, 61, 61>>, <<33>> }

\* single-contain-string: none, "b"
SingleContainsStrings == { <<>>, <<98>> }

\* the flag values the option parser can hand to the banner scanner
BannerFlagsSet ==
    { [type |-> BannerType, Probe |-> pp[1], Pattern |-> pat, MaxTries |-> n,
       UseTLS |-> tls, OnlyBASE64 |-> ob, ProbeBASE64 |-> pp[2],
       SingleContains |-> sc, SingleContainsString |-> scs] :
         pp \in ProbePairs, pat \in Patterns, n \in (-1)..MaxTriesBound,
         tls \in BOOLEAN, ob \in BOOLEAN, sc \in SingleContainsValues,
         scs \in SingleContainsStrings }

\* filter values: none, lower-case and upper-case hex of the byte 0xab, hex of 0x0c
HexFilters == { <<>>, <<97, 98>>, <<65, 66>>, <<48, 99>> }
\* serial filters: none, "5"
SerialFilters == { <<>>, <<53>> }

TLSFlagsSet ==
    { [type |-> TLSType, FilterFingerprintMD5 |-> m, FilterFingerprintSHA1 |-> s1,
       FilterFingerprintSHA256 |-> s2, FilterFingerprintSerial |-> sn] :
         m \in HexFilters, s1 \in {<<>>, <<97, 98>>}, s2 \in {<<>>, <<97, 98>>},
         sn \in SerialFilters }

(***************************************************************************)
(* What a target can answer.                                               *)
(***************************************************************************)
RECURSIVE SeqsUpTo(_, _)
SeqsUpTo(S, n) ==
    IF n = 0 THEN { <<>> }
    ELSE LET shorter == SeqsUpTo(S, n - 1)
         IN shorter \cup { Append(q, x) : q \in shorter, x \in S }

\* bytes a target sends: every sequence of a and b up to MaxRespLen, and one
\* three-byte response with a byte above 127 (a whole base64 quantum)
Responses == SeqsUpTo({97, 98}, MaxRespLen) \cup { <<98, 97, 255>> }

\* what ReadAvailable returns: all the bytes read and nil or io.EOF, or the
\* bytes read so far and another error
ReadOutcomes ==
    { [ret |-> r, readerr |-> e] : r \in Responses, e \in {Nil, Some(EOF)} }
    \cup { [ret |-> r, readerr |-> Some(e)] : r \in { <<>>, <<97>> }, e \in Errors }

\* parsed certificates: digests (one byte each here) and the serial number as
\* a big.Int magnitude in little-endian 64-bit words
Certificates ==
    { [FingerprintMD5 |-> <<171>>, FingerprintSHA1 |-> <<12>>,
       FingerprintSHA256 |-> <<171>>, SerialNumber |-> [abs |-> <<5>>]],
      [FingerprintMD5 |-> <<12>>, FingerprintSHA1 |-> <<171>>,
       FingerprintSHA256 |-> <<12>>, SerialNumber |-> [abs |-> <<5, 1>>]],
      [FingerprintMD5 |-> <<12>>, FingerprintSHA1 |-> <<12>>,
       FingerprintSHA256 |-> <<12>>, SerialNumber |-> [abs |-> <<7>>]] }

\* HandshakeLog.ServerCertificates: nil, or a leaf and a chain
ServerCertificatesSet ==
    { Nil } \cup { Some([Certificate |-> leaf, Chain |-> ch]) :
                     leaf \in Certificates, ch \in SeqsUpTo(Certificates, MaxChain) }

\* a TLS log whose handshake got as far as hello says and delivered certs
TLSLogOf(hello, certs) ==
    [HandshakeLog |-> [ServerHello |-> IF hello THEN Some("ServerHello") ELSE Nil,
                       ServerCertificates |-> certs]]


(***************************************************************************)
(* State.                                                                  *)
(*   scanner   the scanner object: kind, config, regex, probe              *)
(*   initErr   what Init returned                                          *)
(*   pc        position of the one caller: constructing, initialising, or  *)
(*             inside a Scan call                                          *)
(*   try, c, err, readerr, ret, result   locals of Scanner.Scan            *)
(*   tlsLog    the TLSLog object of the call's TLS connection              *)
(*   conns     the connections opened by the call, each with the number of *)
(*             times it was closed                                         *)
(*   deferred  the connections whose Close the call has deferred           *)
(*   opens     number of target.Open / target.OpenTLS calls of the call    *)
(*   out       what the call returned: status, result, error               *)
(*   exit      which return statement (or panic) ended the call            *)
(*   ops       the operations the latest probe attempt of the call made on *)
(*             the connection, in order, each with the error it returned   *)
(*             (and, for a read, the bytes)                                *)
(*   flagsType dynamic type of the value last handed to Init               *)
(***************************************************************************)
VARIABLES scanner, initErr, flagsType, pc, try, c, err, readerr, ret, result,
          tlsLog, conns, deferred, opens, out, exit, ops

vars == <<scanner, initErr, flagsType, pc, try, c, err, readerr, ret, result,
          tlsLog, conns, deferred, opens, out, exit, ops>>

locals == <<try, c, err, readerr, ret, result, tlsLog, conns, deferred, opens, out,
            exit, ops>>

NoScanner == [kind |-> "none", config |-> Nil, regex |-> Nil, probe |-> <<>>]

Init ==
    /\ scanner = NoScanner
    /\ initErr = Nil
    /\ flagsType = ""
    /\ pc = "start"
    /\ try = 0
    /\ c = Nil
    /\ err = Nil
    /\ readerr = Nil
    /\ ret = <<>>
    /\ result = Nil
    /\ tlsLog = Nil
    /\ conns = <<>>
    /\ deferred = <<>>
    /\ opens = 0
    /\ out = Nil
    /\ exit = ""
    /\ ops = <<>>

config == Deref(scanner.config)

(***************************************************************************)
(* Construction and Init.                                                  *)
(***************************************************************************)

\* Module.NewScanner: new(Scanner)
BannerNewScanner ==
    /\ pc = "start"
    /\ scanner' = [NoScanner EXCEPT !.kind = "banner"]
    /\ pc' = "new"
    /\ UNCHANGED <<initErr, flagsType, locals>>

\* TLSModule.NewScanner: new(TLSScanner)
TLSNewScanner ==
    /\ pc = "start"
    /\ scanner' = [NoScanner EXCEPT !.kind = "tls"]
    /\ pc' = "new"
    /\ UNCHANGED <<initErr, flagsType, locals>>

\* f, _ := flags.(*Flags): the asserted pointer, nil when the type differs
BannerAssertFlags(flags) == IF flags.type = BannerType THEN Some(flags) ELSE Nil

\* the probe decoded by Init: ok is FALSE where Init panics
DecodeProbe(f) ==
    IF Len(f.Probe) > 0 THEN
        LET u == Unquote(f.Probe) IN [probe |-> u.str, ok |-> u.ok]
    ELSE IF Len(f.ProbeBASE64) > 0 THEN
        LET d == DecodeString(f.ProbeBASE64) IN [probe |-> d.bytes, ok |-> d.ok]
    ELSE [probe |-> <<>>, ok |-> TRUE]

\* Scanner.Init.  Panics: reading Pattern through a nil config, MustCompile on
\* a pattern that does not compile, a probe that does not decode.
BannerInitWith(flags) ==
    LET f == BannerAssertFlags(flags)
    IN IF IsNil(f) THEN
            /\ scanner' = [scanner EXCEPT !.config = f]
            /\ pc' = "initpanic"
            /\ UNCHANGED initErr
       ELSE LET re == Compile(Deref(f).Pattern)
                pr == DecodeProbe(Deref(f))
            IN IF ~re.ok THEN
                    /\ scanner' = [scanner EXCEPT !.config = f]
                    /\ pc' = "initpanic"
                    /\ UNCHANGED initErr
               ELSE IF ~pr.ok THEN
                    /\ scanner' = [scanner EXCEPT !.config = f, !.regex = Some(re)]
                    /\ pc' = "initpanic"
                    /\ UNCHANGED initErr
               ELSE
                    /\ scanner' = [scanner EXCEPT !.config = f, !.regex = Some(re),
                                                  !.probe = pr.probe]
                    /\ initErr' = Nil
                    /\ pc' = "ready"

BannerInit ==
    /\ pc = "new"
    /\ scanner.kind = "banner"
    /\ \E flags \in BannerFlagsSet \cup {TLSNewFlags} :
            /\ flagsType' = flags.type
            /\ BannerInitWith(flags)
    /\ UNCHANGED locals

\* TLSScanner.Init
TLSInitWith(flags) ==
    IF flags.type # TLSType THEN
        /\ initErr' = Some(ErrMismatchedFlags)
        /\ pc' = "initfailed"
        /\ UNCHANGED scanner
    ELSE
        /\ scanner' = [scanner EXCEPT !.config = Some(flags)]
        /\ initErr' = Nil
        /\ pc' = "ready"

TLSInit ==
    /\ pc = "new"
    /\ scanner.kind = "tls"
    /\ \E flags \in TLSFlagsSet \cup {BannerNewFlags} :
            /\ flagsType' = flags.type
            /\ TLSInitWith(flags)
    /\ UNCHANGED locals

(***************************************************************************)
(* Leaving a Scan call.                                                    *)
(***************************************************************************)
Occurrences(q, x) == Cardinality({ i \in DOMAIN q : q[i] = x })

\* the deferred Close calls run when the function returns or panics
RunDeferred(cs, ds) ==
    [ i \in DOMAIN cs |-> [closed |-> cs[i].closed + Occurrences(ds, i)] ]

\* return status, res, e at the return statement named where
Return(where, status, res, e) ==
    /\ exit' = where
    /\ out' = Some([status |-> status, result |-> res, err |-> e])
    /\ conns' = RunDeferred(conns, deferred)
    /\ pc' = "done"

\* a run-time panic inside Scan: deferred calls run, nothing is returned
Panic(where) ==
    /\ exit' = where
    /\ out' = Nil
    /\ conns' = RunDeferred(conns, deferred)
    /\ pc' = "panic"

(***************************************************************************)
(* Scanner.Scan of the banner module.                                      *)
(***************************************************************************)

\* a Scan that consumes the scanner's probe: the entry of Scan, with a
\* write to the scanner
BannerScanTakesProbe ==
    /\ pc \in {"ready", "done"}
    /\ scanner.kind = "banner"
    /\ pc' = "open"
    /\ try' = 0
    /\ c' = Nil
    /\ err' = Nil
    /\ readerr' = Nil
    /\ ret' = <<>>
    /\ result' = Nil
    /\ tlsLog' = Nil
    /\ conns' = <<>>
    /\ deferred' = <<>>
    /\ opens' = 0
    /\ out' = Nil
    /\ exit' = ""
    /\ ops' = <<>>
    /\ scanner' = [scanner EXCEPT !.probe = <<>>]
    /\ UNCHANGED <<initErr, flagsType>>

\* entry: try := 0; var c, err, readerr
BannerScan ==
    /\ pc \in {"ready", "done"}
    /\ scanner.kind = "banner"
    /\ pc' = "open"
    /\ try' = 0
    /\ c' = Nil
    /\ err' = Nil
    /\ readerr' = Nil
    /\ ret' = <<>>
    /\ result' = Nil
    /\ tlsLog' = Nil
    /\ conns' = <<>>
    /\ deferred' = <<>>
    /\ opens' = 0
    /\ out' = Nil
    /\ exit' = ""
    /\ ops' = <<>>
    /\ UNCHANGED <<scanner, initErr, flagsType>>

\* the open loop continues while try < MaxTries
OpenLoopGuard(n, maxTries) == n < maxTries

\* one iteration of the open loop: target.Open succeeds (break) or fails
\* (continue)
BannerOpen ==
    /\ pc = "open"
    /\ OpenLoopGuard(try, config.MaxTries)
    /\ try' = try + 1
    /\ opens' = opens + 1
    /\ \/ /\ conns' = Append(conns, [closed |-> 0])
          /\ c' = Some(Len(conns) + 1)
          /\ err' = Nil
          /\ pc' = "opened"
       \/ \E e \in Errors :
            /\ c' = Nil
            /\ err' = Some(e)
            /\ pc' = "open"
            /\ UNCHANGED conns
    /\ UNCHANGED <<scanner, initErr, flagsType, readerr, ret, result, tlsLog,
                   deferred, out, exit, ops>>

\* the defer statement left out
DeferCloseMissing(ds, cn) == ds

\* defer c.Close()
DeferClose(ds, cn) == Append(ds, Deref(cn))

\* after the open loop: return on error, defer c.Close(), allocate the result
BannerAfterOpen ==
    /\ \/ pc = "opened"
       \/ pc = "open" /\ ~OpenLoopGuard(try, config.MaxTries)
    /\ IF ~IsNil(err) THEN
            /\ Return("open-error", TryGetScanStatus(Deref(err)), Nil, err)
            /\ UNCHANGED <<try, c, err, readerr, ret, result, tlsLog, deferred, opens>>
       ELSE IF IsNil(c) THEN
            \* defer c.Close() on a nil net.Conn
            /\ Panic("defer-close")
            /\ UNCHANGED <<try, c, err, readerr, ret, result, tlsLog, deferred, opens>>
       ELSE
            /\ deferred' = DeferClose(deferred, c)
            /\ result' = Some([Banner |-> <<>>, Length |-> 0, BannerBase64 |-> <<>>,
                               TLSLog |-> Nil])
            /\ IF config.UseTLS
               THEN pc' = "tls" /\ UNCHANGED <<try, err>>
               ELSE pc' = "probe" /\ try' = 0 /\ err' = Nil
            /\ UNCHANGED <<c, readerr, ret, tlsLog, conns, opens, out, exit>>
    /\ UNCHANGED <<scanner, initErr, flagsType, ops>>


\* result.TLSLog = tlsConn.GetLog() left out
StoreTLSLogMissing(res) == res

\* result.TLSLog = tlsConn.GetLog(): the result refers to the connection's
\* log object
StoreTLSLog(res) == [res EXCEPT !.TLSLog = Some("tlsConn.log")]

\* if scanner.config.UseTLS { ... }, up to the handshake: GetTLSConnection,
\* then the connection's (still empty) log is stored in the result
BannerTLS ==
    /\ pc = "tls"
    /\ \/ \E e \in Errors :
            \* GetTLSConnection fails
            /\ Return("tls-setup", TryGetScanStatus(e), Nil, Some(e))
            /\ UNCHANGED <<result, tlsLog>>
       \/ /\ tlsLog' = Some(TLSLogOf(FALSE, Nil))
          /\ result' = Some(StoreTLSLog(Deref(result)))
          /\ pc' = "handshake"
          /\ UNCHANGED <<conns, out, exit>>
    /\ UNCHANGED <<scanner, initErr, flagsType, try, c, err, readerr, ret, deferred,
                   opens, ops>>

\* tlsConn.Handshake(), which fills in the log; c = tlsConn; then
\* conn := Connection{Conn: c}; try = 0; err = nil
BannerHandshake ==
    /\ pc = "handshake"
    /\ \/ \E e \in Errors, hello \in BOOLEAN :
            \* Handshake fails, before or after the ServerHello
            /\ tlsLog' = Some(TLSLogOf(hello, Nil))
            /\ Return("handshake", TryGetScanStatus(e), result, Some(e))
            /\ UNCHANGED <<try, err>>
       \/ \* Handshake succeeds; tlsConn wraps the same transport
          /\ tlsLog' = Some(TLSLogOf(TRUE, Nil))
          /\ pc' = "probe"
          /\ try' = 0
          /\ err' = Nil
          /\ UNCHANGED <<conns, out, exit>>
    /\ UNCHANGED <<scanner, initErr, flagsType, c, readerr, ret, result, deferred,
                   opens, ops>>

\* the probe loop continues while try < MaxTries
ProbeLoopGuard(n, maxTries) == n < maxTries

\* a clean end-of-stream counted as a failure
ReadFailedOnEOF(re) == re # Nil

\* readerr != io.EOF && readerr != nil
ReadFailed(re) == re # Some(EOF) /\ re # Nil

\* one iteration of the probe loop: write the probe if there is one, read
\* what is available, then continue or break
BannerProbe ==
    /\ pc = "probe"
    /\ ProbeLoopGuard(try, config.MaxTries)
    /\ try' = try + 1
    /\ IF Len(scanner.probe) > 0
       THEN \E w \in {Nil} \cup { Some(e) : e \in Errors } : err' = w
       ELSE UNCHANGED err
    /\ \E r \in ReadOutcomes :
            /\ ret' = r.ret
            /\ readerr' = r.readerr
    /\ ops' = (IF Len(scanner.probe) > 0 THEN <<[op |-> "write", err |-> err']>>
               ELSE <<>>)
              \o <<[op |-> "read", err |-> readerr', ret |-> ret']>>
    /\ pc' = IF ~IsNil(err') \/ ReadFailed(readerr') THEN "probe" ELSE "probed"
    /\ UNCHANGED <<scanner, initErr, flagsType, c, result, tlsLog, conns, deferred,
                   opens, out, exit>>

\* the raw text stored whatever OnlyBASE64 says
BuildResultAlwaysText(res, cfg, r) ==
    [res EXCEPT !.Banner = r,
                !.Length = Len(r),
                !.BannerBase64 = EncodeToString(r)]

\* banner_base64, banner_str and the three assignments to the result
BuildResult(res, cfg, r) ==
    [res EXCEPT !.Banner = IF ~cfg.OnlyBASE64 THEN r ELSE <<>>,
                !.Length = Len(r),
                !.BannerBase64 = EncodeToString(r)]

\* the literal string taking precedence over single-contain
CheckBytesLiteralFirst(cfg) ==
    IF Len(cfg.SingleContainsString) > 0
    THEN [bytes |-> cfg.SingleContainsString, ok |-> TRUE]
    ELSE IF Len(cfg.SingleContains) > 0
    THEN DecodeString(cfg.SingleContains)
    ELSE [bytes |-> <<>>, ok |-> TRUE]

\* the bytes searched for: single-contain-string, replaced by the decoded
\* single-contain when that is set
CheckBytes(cfg) ==
    IF Len(cfg.SingleContains) > 0
    THEN DecodeString(cfg.SingleContains)
    ELSE [bytes |-> cfg.SingleContainsString, ok |-> TRUE]

\* the two substring outcomes exchanged
AcceptOutcomesSwapped(cfg, re, r) ==
    IF Len(cfg.SingleContains) = 0 /\ Len(cfg.SingleContainsString) = 0 THEN
        IF Match(re, r)
        THEN [status |-> SCAN_SUCCESS, withResult |-> TRUE, err |-> Nil]
        ELSE [status |-> SCAN_PROTOCOL_ERROR, withResult |-> TRUE, err |-> Some(NoMatchError)]
    ELSE
        LET check == CheckBytes(cfg)
        IN IF check.ok /\ Len(check.bytes) > 0 THEN
                IF Contains(r, check.bytes)
                THEN [status |-> SCAN_SUCCESS_NOTCONTAIN, withResult |-> TRUE, err |-> Nil]
                ELSE [status |-> SCAN_SUCCESS, withResult |-> FALSE, err |-> Nil]
           ELSE [status |-> SCAN_PROTOCOL_ERROR, withResult |-> TRUE, err |-> Some(NoMatchError)]

\* Accept with the pattern test inverted
AcceptPatternInverted(cfg, re, r) ==
    IF Len(cfg.SingleContains) = 0 /\ Len(cfg.SingleContainsString) = 0 THEN
        IF ~Match(re, r)
        THEN [status |-> SCAN_SUCCESS, withResult |-> TRUE, err |-> Nil]
        ELSE [status |-> SCAN_PROTOCOL_ERROR, withResult |-> TRUE, err |-> Some(NoMatchError)]
    ELSE
        LET check == CheckBytes(cfg)
        IN IF check.ok /\ Len(check.bytes) > 0 THEN
                IF Contains(r, check.bytes)
                THEN [status |-> SCAN_SUCCESS, withResult |-> TRUE, err |-> Nil]
                ELSE [status |-> SCAN_SUCCESS_NOTCONTAIN, withResult |-> FALSE, err |-> Nil]
           ELSE [status |-> SCAN_PROTOCOL_ERROR, withResult |-> TRUE, err |-> Some(NoMatchError)]

\* Accept taking the pattern branch when either filter is empty
AcceptEitherEmpty(cfg, re, r) ==
    IF Len(cfg.SingleContains) = 0 \/ Len(cfg.SingleContainsString) = 0 THEN
        IF Match(re, r)
        THEN [status |-> SCAN_SUCCESS, withResult |-> TRUE, err |-> Nil]
        ELSE [status |-> SCAN_PROTOCOL_ERROR, withResult |-> TRUE, err |-> Some(NoMatchError)]
    ELSE
        LET check == CheckBytes(cfg)
        IN IF check.ok /\ Len(check.bytes) > 0 THEN
                IF Contains(r, check.bytes)
                THEN [status |-> SCAN_SUCCESS, withResult |-> TRUE, err |-> Nil]
                ELSE [status |-> SCAN_SUCCESS_NOTCONTAIN, withResult |-> FALSE, err |-> Nil]
           ELSE [status |-> SCAN_PROTOCOL_ERROR, withResult |-> TRUE, err |-> Some(NoMatchError)]

\* the acceptance step: status, whether the result is returned, error
Accept(cfg, re, r) ==
    IF Len(cfg.SingleContains) = 0 /\ Len(cfg.SingleContainsString) = 0 THEN
        IF Match(re, r)
        THEN [status |-> SCAN_SUCCESS, withResult |-> TRUE, err |-> Nil]
        ELSE [status |-> SCAN_PROTOCOL_ERROR, withResult |-> TRUE, err |-> Some(NoMatchError)]
    ELSE
        LET check == CheckBytes(cfg)
        IN IF check.ok /\ Len(check.bytes) > 0 THEN
                IF Contains(r, check.bytes)
                THEN [status |-> SCAN_SUCCESS, withResult |-> TRUE, err |-> Nil]
                ELSE [status |-> SCAN_SUCCESS_NOTCONTAIN, withResult |-> FALSE, err |-> Nil]
           ELSE [status |-> SCAN_PROTOCOL_ERROR, withResult |-> TRUE, err |-> Some(NoMatchError)]

\* after the probe loop: return on a write or read error, else fill in the
\* result and accept or reject the response
BannerAccept ==
    /\ \/ pc = "probed"
       \/ pc = "probe" /\ ~ProbeLoopGuard(try, config.MaxTries)
    /\ IF ~IsNil(err) THEN
            /\ Return("write-error", TryGetScanStatus(Deref(err)), Nil, err)
            /\ UNCHANGED result
       ELSE IF ReadFailed(readerr) THEN
            /\ Return("read-error", TryGetScanStatus(Deref(readerr)), Nil, readerr)
            /\ UNCHANGED result
       ELSE
            LET a == Accept(config, Deref(scanner.regex), ret)
            IN /\ result' = Some(BuildResult(Deref(result), config, ret))
               /\ Return("accept", a.status, IF a.withResult THEN result' ELSE Nil, a.err)
    /\ UNCHANGED <<scanner, initErr, flagsType, try, c, err, readerr, ret, tlsLog,
                   deferred, opens, ops>>

(***************************************************************************)
(* TLSScanner.Scan.                                                        *)
(***************************************************************************)

\* what t.OpenTLS hands back: a connection or nil, its log or nil, an error
\* or nil.  A failed open or handshake delivers no certificates; a completed
\* handshake has a ServerHello.
OpenTLSOutcomes ==
    { [conn |-> FALSE, log |-> Nil, err |-> Some(e)] : e \in Errors }
    \cup { [conn |-> TRUE, log |-> lg, err |-> Some(e)] :
             lg \in { Nil, Some(TLSLogOf(FALSE, Nil)), Some(TLSLogOf(TRUE, Nil)) },
             e \in Errors }
    \cup { [conn |-> TRUE, log |-> Some(TLSLogOf(TRUE, certs)), err |-> Nil] :
             certs \in ServerCertificatesSet }

\* conn, err := t.OpenTLS(...); if conn != nil { defer conn.Close() }
TLSScan ==
    /\ pc \in {"ready", "done"}
    /\ scanner.kind = "tls"
    /\ \E o \in OpenTLSOutcomes :
            /\ c' = IF o.conn THEN Some(1) ELSE Nil
            /\ conns' = IF o.conn THEN <<[closed |-> 0]>> ELSE <<>>
            /\ deferred' = IF o.conn THEN <<1>> ELSE <<>>
            /\ tlsLog' = o.log
            /\ err' = o.err
    /\ opens' = 1
    /\ try' = 0
    /\ readerr' = Nil
    /\ ret' = <<>>
    /\ result' = Nil
    /\ out' = Nil
    /\ exit' = ""
    /\ ops' = <<>>
    /\ pc' = "tlsopened"
    /\ UNCHANGED <<scanner, initErr, flagsType>>

\* TLSFailureResult without the ServerHello test
TLSFailureResultAnyLog(cn, lg) ==
    IF ~IsNil(cn) /\ ~IsNil(lg) THEN lg ELSE Nil

\* the result returned with the error of a failed OpenTLS: the log when the
\* connection has one with a ServerHello, else nil
TLSFailureResult(cn, lg) ==
    IF ~IsNil(cn) /\ ~IsNil(lg) /\ ~IsNil(Deref(lg).HandshakeLog.ServerHello)
    THEN lg
    ELSE Nil

\* SelectedFilter with the sha1 case ahead of the md5 case
SelectedFilterSHA1First(cfg) ==
    IF Len(cfg.FilterFingerprintSHA1) > 0 THEN "sha1"
    ELSE IF Len(cfg.FilterFingerprintMD5) > 0 THEN "md5"
    ELSE IF Len(cfg.FilterFingerprintSHA256) > 0 THEN "sha256"
    ELSE IF Len(cfg.FilterFingerprintSerial) > 0 THEN "serial"
    ELSE "none"

\* the case the switch enters: the first filter that is not empty
SelectedFilter(cfg) ==
    IF Len(cfg.FilterFingerprintMD5) > 0 THEN "md5"
    ELSE IF Len(cfg.FilterFingerprintSHA1) > 0 THEN "sha1"
    ELSE IF Len(cfg.FilterFingerprintSHA256) > 0 THEN "sha256"
    ELSE IF Len(cfg.FilterFingerprintSerial) > 0 THEN "serial"
    ELSE "none"

\* the configured value the entered case compares with
FilterValue(kind, cfg) ==
    IF kind = "md5" THEN cfg.FilterFingerprintMD5
    ELSE IF kind = "sha1" THEN cfg.FilterFingerprintSHA1
    ELSE IF kind = "sha256" THEN cfg.FilterFingerprintSHA256
    ELSE cfg.FilterFingerprintSerial

\* the text the entered case computes from one parsed certificate
CertText(kind, cert) ==
    IF kind = "md5" THEN HexEncodeToString(cert.FingerprintMD5)
    ELSE IF kind = "sha1" THEN HexEncodeToString(cert.FingerprintSHA1)
    ELSE IF kind = "sha256" THEN HexEncodeToString(cert.FingerprintSHA256)
    ELSE FormatUint(Uint64(cert.SerialNumber))

\* leaf first, then the chain in order
CertsMatch(kind, value, certs) ==
    \/ CertText(kind, certs.Certificate) = value
    \/ \E i \in 1..Len(certs.Chain) : CertText(kind, certs.Chain[i]) = value

\* the switch after a completed handshake.  Reading the leaf through a nil
\* ServerCertificates panics.
TLSFilter(cfg, lg) ==
    LET kind == SelectedFilter(cfg)
        certs == lg.HandshakeLog.ServerCertificates
    IN IF kind = "none"
       THEN [panic |-> FALSE, status |-> SCAN_SUCCESS, withLog |-> TRUE, branch |-> kind]
       ELSE IF IsNil(certs)
       THEN [panic |-> TRUE, status |-> "", withLog |-> FALSE, branch |-> kind]
       ELSE IF CertsMatch(kind, FilterValue(kind, cfg), Deref(certs))
       THEN [panic |-> FALSE, status |-> SCAN_SUCCESS, withLog |-> TRUE, branch |-> kind]
       ELSE [panic |-> FALSE, status |-> SCAN_SUCCESS_NOTCONTAIN, withLog |-> FALSE,
             branch |-> kind]

\* the rest of Scan after OpenTLS
TLSFinish ==
    /\ pc = "tlsopened"
    /\ IF ~IsNil(err) THEN
            Return("opentls-error", TryGetScanStatus(Deref(err)),
                   TLSFailureResult(c, tlsLog), err)
       ELSE LET f == TLSFilter(config, Deref(tlsLog))
            IN IF f.panic THEN Panic(f.branch)
               ELSE Return(f.branch, f.status, IF f.withLog THEN tlsLog ELSE Nil, Nil)
    /\ UNCHANGED <<scanner, initErr, flagsType, try, c, err, readerr, ret, result,
                   tlsLog, deferred, opens, ops>>

Next ==
    \/ BannerNewScanner
    \/ TLSNewScanner
    \/ BannerInit
    \/ TLSInit
    \/ BannerScan
    \/ BannerOpen
    \/ BannerAfterOpen
    \/ BannerTLS
    \/ BannerHandshake
    \/ BannerProbe
    \/ BannerAccept
    \/ TLSScan
    \/ TLSFinish

Spec == Init /\ [][Next]_vars


(***************************************************************************)
(* Properties.                                                             *)
(***************************************************************************)
BannerEnded == scanner.kind = "banner" /\ pc \in {"done", "panic"}
TLSEnded == scanner.kind = "tls" /\ pc \in {"done", "panic"}
Returned == pc = "done"
Status == Deref(out).status

\* the banner call got as far as the acceptance step
AtAcceptance == scanner.kind = "banner" /\ pc = "done" /\ exit = "accept"

NoSubstringFilter(cfg) ==
    Len(cfg.SingleContains) = 0 /\ Len(cfg.SingleContainsString) = 0

\* C1: for every MaxTries N, a Banner.Scan call in which every target.Open
\* failed has called Open exactly N times and has returned the status of the
\* last open error, no result, and that error.  (Stated for N >= 0: a
\* negative N is not a number of calls.)
C1_OpenExactlyMaxTries ==
    (BannerEnded /\ conns = <<>> /\ config.MaxTries >= 0) =>
        /\ opens = config.MaxTries
        /\ Returned
        /\ ~IsNil(err)
        /\ out = Some([status |-> TryGetScanStatus(Deref(err)), result |-> Nil,
                       err |-> err])

\* C2: without a substring filter, a Banner.Scan call that reaches the
\* acceptance step returns SUCCESS and no error exactly when the compiled
\* pattern matches the response, and PROTOCOL_ERROR with the "pattern did not
\* match" error otherwise.
C2_PatternDecides ==
    (AtAcceptance /\ NoSubstringFilter(config)) =>
        IF Match(Compile(config.Pattern), ret)
        THEN Status = SCAN_SUCCESS /\ IsNil(Deref(out).err)
        ELSE Status = SCAN_PROTOCOL_ERROR /\ Deref(out).err = Some(NoMatchError)

\* C2 witness: both outcomes need a pattern that is not empty; here the
\* anchored pattern ^a rejected a response that contains an a
C2_Witness ==
    /\ AtAcceptance
    /\ NoSubstringFilter(config)
    /\ config.Pattern = <<94, 97>>
    /\ ret = <<98, 97>>
    /\ Status = SCAN_PROTOCOL_ERROR

ASubstringFilter(cfg) == ~NoSubstringFilter(cfg)

\* C3: with a substring filter configured, a Banner.Scan call that reaches
\* the acceptance step returns SUCCESS when the response contains the
\* configured bytes, else SUCCESS_NOT_CONTAIN with no result and no error,
\* and never PROTOCOL_ERROR.
C3_FilterNeverProtocolError ==
    (AtAcceptance /\ ASubstringFilter(config)) =>
        /\ Status # SCAN_PROTOCOL_ERROR
        /\ \/ Status = SCAN_SUCCESS /\ IsNil(Deref(out).err)
           \/ /\ Status = SCAN_SUCCESS_NOTCONTAIN
              /\ IsNil(Deref(out).result)
              /\ IsNil(Deref(out).err)
        /\ CheckBytes(config).ok =>
              (Status = SCAN_SUCCESS <=> Contains(ret, CheckBytes(config).bytes))

\* C4: when OpenTLS returned an error, TLSScanner.Scan returns the status of
\* that error (never SUCCESS) and the error; the result is the connection's
\* log exactly when there is a connection whose log has a ServerHello, and is
\* absent otherwise.
C4_PartialLogOnServerHello ==
    (TLSEnded /\ ~IsNil(err)) =>
        /\ Returned
        /\ Status = TryGetScanStatus(Deref(err))
        /\ Status # SCAN_SUCCESS
        /\ Deref(out).err = err
        /\ IF /\ ~IsNil(c)
              /\ ~IsNil(tlsLog)
              /\ ~IsNil(Deref(tlsLog).HandshakeLog.ServerHello)
           THEN ~IsNil(Deref(out).result) /\ Deref(out).result = tlsLog
           ELSE IsNil(Deref(out).result)

\* C4 witness: a failed handshake whose log has a ServerHello was returned
C4_Witness ==
    /\ TLSEnded
    /\ ~IsNil(err)
    /\ ~IsNil(Deref(out).result)
    /\ ~IsNil(Deref(Deref(out).result).HandshakeLog.ServerHello)


\* the handshake of the TLS scanner's call completed
TLSHandshakeDone == TLSEnded /\ IsNil(err)

\* the filters in their priority order, and the first one that is set
FilterOrder == <<"md5", "sha1", "sha256", "serial">>

FirstSetFilter(cfg) ==
    LET set == { i \in DOMAIN FilterOrder : Len(FilterValue(FilterOrder[i], cfg)) > 0 }
    IN IF set = {} THEN "none"
       ELSE FilterOrder[CHOOSE i \in set : \A j \in set : i <= j]

\* cfg with every filter but kind cleared
OnlyFilter(cfg, kind) ==
    [cfg EXCEPT !.FilterFingerprintMD5 = IF kind = "md5" THEN @ ELSE <<>>,
                !.FilterFingerprintSHA1 = IF kind = "sha1" THEN @ ELSE <<>>,
                !.FilterFingerprintSHA256 = IF kind = "sha256" THEN @ ELSE <<>>,
                !.FilterFingerprintSerial = IF kind = "serial" THEN @ ELSE <<>>]

ServerCerts == Deref(tlsLog).HandshakeLog.ServerCertificates

\* C5: after a completed handshake TLSScanner.Scan enters exactly the case of
\* the first filter that is set, in the order md5, sha1, sha256, serial; the
\* filters after it have no influence (the call ends as it would with them
\* cleared, and a certificate that matches only a lower-priority filter gives
\* SUCCESS_NOT_CONTAIN); with no filter set it returns SUCCESS with the log.
C5_FirstFilterOnly ==
    TLSHandshakeDone =>
        LET kind == FirstSetFilter(config)
            alone == TLSFilter(OnlyFilter(config, kind), Deref(tlsLog))
        IN /\ exit = kind
           /\ (pc = "panic") = alone.panic
           /\ Returned =>
                /\ Status = alone.status
                /\ IsNil(Deref(out).result) = ~alone.withLog
           /\ kind = "none" =>
                /\ Returned
                /\ out = Some([status |-> SCAN_SUCCESS, result |-> tlsLog, err |-> Nil])
           /\ (/\ kind # "none"
               /\ ~IsNil(ServerCerts)
               /\ ~CertsMatch(kind, FilterValue(kind, config), Deref(ServerCerts))) =>
                /\ Returned
                /\ Status = SCAN_SUCCESS_NOTCONTAIN

\* C5 witness: md5 and sha1 filters both set, the leaf matches the sha1
\* filter and not the md5 filter, and the call returned SUCCESS_NOT_CONTAIN
C5_Witness ==
    /\ TLSHandshakeDone
    /\ Returned
    /\ Len(config.FilterFingerprintMD5) > 0
    /\ Len(config.FilterFingerprintSHA1) > 0
    /\ ~IsNil(ServerCerts)
    /\ CertsMatch("sha1", config.FilterFingerprintSHA1, Deref(ServerCerts))
    /\ ~CertsMatch("md5", config.FilterFingerprintMD5, Deref(ServerCerts))
    /\ Status = SCAN_SUCCESS_NOTCONTAIN

\* the decimal text of a whole serial number, for serial numbers below 2^64
\* (one word at most); every filter value of the model is shorter than the 20
\* digits a serial number of 2^64 or more has
SerialEquals(serial, value) ==
    /\ Len(serial.abs) <= 1
    /\ FormatUint(Uint64(serial)) = value

\* the selected digest (or serial number) of cert equals the configured value
DigestEquals(kind, cert, value) ==
    IF kind = "serial" THEN SerialEquals(cert.SerialNumber, value)
    ELSE CertText(kind, cert) = value

\* some certificate of the log, leaf or chain, has the configured digest
SomeCertHasDigest(kind, value, certs) ==
    /\ ~IsNil(certs)
    /\ \/ DigestEquals(kind, Deref(certs).Certificate, value)
       \/ \E i \in 1..Len(Deref(certs).Chain) :
            DigestEquals(kind, Deref(certs).Chain[i], value)

\* C6: with a filter selected and a completed handshake, TLSScanner.Scan
\* returns SUCCESS with the log and no error exactly when the selected digest
\* of the leaf or of some chain certificate equals the configured value, and
\* SUCCESS_NOT_CONTAIN with no result and no error otherwise.
C6_DigestDecides ==
    (TLSHandshakeDone /\ FirstSetFilter(config) # "none") =>
        LET kind == FirstSetFilter(config)
        IN /\ Returned
           /\ IF SomeCertHasDigest(kind, FilterValue(kind, config), ServerCerts)
              THEN out = Some([status |-> SCAN_SUCCESS, result |-> tlsLog, err |-> Nil])
              ELSE out = Some([status |-> SCAN_SUCCESS_NOTCONTAIN, result |-> Nil,
                               err |-> Nil])

\* Init has been called with a value that is not the module's own flags type
MismatchedInit ==
    /\ flagsType # ""
    /\ flagsType # (IF scanner.kind = "banner" THEN BannerType ELSE TLSType)

\* C7: Init of either scanner, handed a value that the module's NewFlags did
\* not produce, returns the mismatched-configuration error without panicking
\* and leaves the scanner unconfigured.
C7_MismatchedFlagsError ==
    MismatchedInit =>
        /\ pc = "initfailed"
        /\ initErr = Some(ErrMismatchedFlags)
        /\ IsNil(scanner.config)

\* C8: what a Scan call of either scanner returns is consistent: an error
\* comes with a status other than SUCCESS; SUCCESS comes with a result and no
\* error; SUCCESS_NOT_CONTAIN comes with neither result nor error.
C8_ConsistentTriple ==
    Returned =>
        LET o == Deref(out)
        IN /\ ~IsNil(o.err) => o.status # SCAN_SUCCESS
           /\ o.status = SCAN_SUCCESS => IsNil(o.err) /\ ~IsNil(o.result)
           /\ o.status = SCAN_SUCCESS_NOTCONTAIN => IsNil(o.err) /\ IsNil(o.result)

\* C8 witness: a call returned an error together with a result
C8_Witness ==
    /\ Returned
    /\ ~IsNil(Deref(out).err)
    /\ ~IsNil(Deref(out).result)
    /\ Deref(out).status # SCAN_SUCCESS

\* C9: no Scan call, for any configuration Init accepted and any behaviour of
\* the target, ends without returning a status.
C9_AlwaysAStatus ==
    /\ pc # "panic"
    /\ Returned => ~IsNil(out)

LiveConns == { i \in DOMAIN conns : conns[i].closed = 0 }

\* C10: a Scan call has at most one connection open at a time, never closes
\* a connection twice, and when it ends (by return or by panic) every
\* connection it opened has been closed exactly once.
C10_ConnectionsClosedOnce ==
    /\ Cardinality(LiveConns) <= 1
    /\ \A i \in DOMAIN conns : conns[i].closed <= 1
    /\ pc \in {"done", "panic"} => \A i \in DOMAIN conns : conns[i].closed = 1

\* C10 witness: a call that opened a connection returned early, on a failed
\* handshake, with the connection closed
C10_Witness ==
    /\ Returned
    /\ exit = "handshake"
    /\ Len(conns) = 1
    /\ conns[1].closed = 1

\* the banner call returned at one of the error returns that follow the
\* capture of the TLS log
FailedAfterTLSLog ==
    /\ scanner.kind = "banner"
    /\ Returned
    /\ config.UseTLS
    /\ exit \in {"handshake", "write-error", "read-error"}

\* C11: with use-tls, a Banner.Scan call that returns an error status after
\* the TLS log was captured and a ServerHello was seen (failed handshake, or
\* failed write or read after the handshake) returns a result, and that
\* result carries the TLS log.
C11_TLSLogOnEveryFailure ==
    (/\ FailedAfterTLSLog
     /\ ~IsNil(tlsLog)
     /\ ~IsNil(Deref(tlsLog).HandshakeLog.ServerHello)) =>
        /\ ~IsNil(Deref(out).result)
        /\ Deref(Deref(out).result).TLSLog = Some("tlsConn.log")

\* C12: with only filter-serialnumber set and the server's certificates in
\* the log, TLSScanner.Scan returns SUCCESS exactly when the decimal text of
\* the whole serial number of the leaf or of a chain certificate equals the
\* configured value, for serial numbers of every size.
C12_WholeSerialDecides ==
    (/\ TLSHandshakeDone
     /\ Len(config.FilterFingerprintSerial) > 0
     /\ config = OnlyFilter(config, "serial")
     /\ ~IsNil(ServerCerts)) =>
        /\ Returned
        /\ Status = SCAN_SUCCESS <=>
              SomeCertHasDigest("serial", config.FilterFingerprintSerial, ServerCerts)

\* C13: the result of a Banner.Scan call that reached the acceptance step has
\* banner_base64 equal to the base64 encoding of the captured response (so
\* that decoding it gives the response back), length equal to the number of
\* bytes of the response, and banner equal to the response unless
\* only-base64 is set, when it is empty.
C13_ResultEncodesResponse ==
    AtAcceptance =>
        LET res == Deref(result)
        IN /\ res.BannerBase64 = EncodeToString(ret)
           /\ DecodeString(res.BannerBase64) = [bytes |-> ret, ok |-> TRUE]
           /\ res.Length = Len(ret)
           /\ Len(DecodeString(res.BannerBase64).bytes) = res.Length
           /\ res.Banner = (IF config.OnlyBASE64 THEN <<>> ELSE ret)
           /\ ~IsNil(Deref(out).result) => Deref(out).result = result

\* C13 witness: a three-byte response with a byte above 127 was returned in
\* base64 only
C13_Witness ==
    /\ AtAcceptance
    /\ ret = <<98, 97, 255>>
    /\ config.OnlyBASE64
    /\ ~IsNil(Deref(out).result)
    /\ Deref(Deref(out).result).BannerBase64 = <<89, 109, 72, 47>>
    /\ Deref(Deref(out).result).Banner = <<>>

\* the write and the read of an attempt, from the operations it made
WriteOf(o) == IF o[1].op = "write" THEN o[1].err ELSE Nil
ReadOf(o) == o[Len(o)]

\* the attempt's write did not fail and its read ended with no error or with
\* a clean end-of-stream
AttemptSucceeded(o) ==
    /\ o # <<>>
    /\ WriteOf(o) = Nil
    /\ ReadOf(o).op = "read"
    /\ ReadOf(o).err \in {Nil, Some(EOF)}

\* C14: the probe attempts of a Banner.Scan call run one after the other on
\* the one opened connection; the loop is left for the acceptance step by
\* the first attempt whose write did not fail and whose read gave no error
\* or a clean end-of-stream, and the acceptance step works on that attempt's
\* bytes; when the last of the MaxTries attempts has failed too, Scan returns
\* the status of that attempt's write error, or of its read error when the
\* write did not fail, with no result.
C14_ProbeAttempts ==
    [][ /\ (pc = "probe" /\ pc' \in {"probe", "probed"}) =>
              /\ c' = c
              /\ conns' = conns
              /\ opens' = opens
              /\ try' = try + 1
              /\ try' <= config.MaxTries
              /\ (pc' = "probed") <=> AttemptSucceeded(ops')
        /\ pc = "probed" =>
              /\ pc' = "done"
              /\ exit' = "accept"
              /\ ops' = ops
              /\ Deref(result').BannerBase64 = EncodeToString(ReadOf(ops).ret)
              /\ Deref(out').status =
                    Accept(config, Deref(scanner.regex), ReadOf(ops).ret).status
        /\ (pc = "probe" /\ pc' = "done") =>
              /\ try = config.MaxTries
              /\ ops' = ops
              /\ ~AttemptSucceeded(ops)
              /\ ops # <<>>
              /\ LET e == IF WriteOf(ops) # Nil THEN WriteOf(ops) ELSE ReadOf(ops).err
                 IN out' = Some([status |-> TryGetScanStatus(Deref(e)),
                                 result |-> Nil, err |-> e])
      ]_vars

\* C14 witness: two attempts were made, the write of the second failed while
\* its read gave bytes and no error, and the call returned the write error
C14_Witness ==
    /\ scanner.kind = "banner"
    /\ Returned
    /\ try = 2
    /\ Len(ops) = 2
    /\ ops[1].err # Nil
    /\ ops[2].err = Nil
    /\ Len(ops[2].ret) > 0
    /\ out = Some([status |-> TryGetScanStatus(Deref(ops[1].err)), result |-> Nil,
                   err |-> ops[1].err])

\* C15: a failed probe write ends its attempt: no read is made on the
\* connection in an attempt whose write failed.
C15_NoReadAfterFailedWrite ==
    (scanner.kind = "banner" /\ ops # <<>> /\ WriteOf(ops) # Nil) =>
        \A i \in DOMAIN ops : ops[i].op # "read"

\* a Banner.Scan call is under way or has ended
InBannerCall ==
    /\ scanner.kind = "banner"
    /\ pc \in {"open", "opened", "tls", "handshake", "probe", "probed", "done", "panic"}

\* the write/read attempts the call has made so far
ProbeAttempts ==
    IF pc \in {"probe", "probed"} \/ exit \in {"write-error", "read-error", "accept"}
    THEN try
    ELSE 0

\* C16: with MaxTries = N >= 0 a Banner.Scan call makes at most N Open calls
\* and at most N write/read attempts, the probe phase starting with the
\* counter back at 0, hence at most 2N attempts in all; and the call ends by
\* returning.
C16_BoundedAttemptsThenReturn ==
    (InBannerCall /\ config.MaxTries >= 0) =>
        /\ opens <= config.MaxTries
        /\ ProbeAttempts <= config.MaxTries
        /\ opens + ProbeAttempts <= 2 * config.MaxTries
        /\ (pc = "probe" /\ ops = <<>>) => try = 0
        /\ pc # "panic"
        /\ pc = "done" => ~IsNil(out)

\* C17: with use-tls, the TLS log is in the result when the handshake is
\* attempted; a failed handshake makes Banner.Scan return the status of the
\* handshake error, the result with the TLS log, and the error, with no write
\* or read made; a failure to create the TLS connection makes it return the
\* status of that error with no result.
C17_LogStoredBeforeHandshake ==
    scanner.kind = "banner" =>
        /\ pc = "handshake" =>
              /\ config.UseTLS
              /\ ~IsNil(result)
              /\ Deref(result).TLSLog = Some("tlsConn.log")
        /\ (Returned /\ exit = "handshake") =>
              LET o == Deref(out)
              IN /\ config.UseTLS
                 /\ ~IsNil(o.err)
                 /\ o.status = TryGetScanStatus(Deref(o.err))
                 /\ ~IsNil(o.result)
                 /\ o.result = result
                 /\ Deref(o.result).TLSLog = Some("tlsConn.log")
                 /\ ops = <<>>
        /\ (Returned /\ exit = "tls-setup") =>
              LET o == Deref(out)
              IN /\ config.UseTLS
                 /\ ~IsNil(o.err)
                 /\ o.status = TryGetScanStatus(Deref(o.err))
                 /\ IsNil(o.result)
                 /\ ops = <<>>

\* C17 witness: the handshake failed before any ServerHello and the call
\* returned the result with the TLS log, no probe written, nothing read
C17_Witness ==
    /\ scanner.kind = "banner"
    /\ Returned
    /\ exit = "handshake"
    /\ IsNil(Deref(tlsLog).HandshakeLog.ServerHello)
    /\ ~IsNil(Deref(out).result)
    /\ Deref(Deref(out).result).TLSLog = Some("tlsConn.log")
    /\ Len(scanner.probe) > 0
    /\ ops = <<>>

OutcomeWith(cfg, re) ==
    LET a == Accept(cfg, re, ret)
    IN Some([status |-> a.status,
             result |-> IF a.withResult THEN result ELSE Nil,
             err |-> a.err])

\* C19: when single-contain is set, Banner.Scan looks for the bytes decoded
\* from it and what it returns is the same for every value of
\* single-contain-string; the literal string is what is looked for only when
\* single-contain is empty.
C19_Base64FilterFirst ==
    AtAcceptance =>
        /\ Len(config.SingleContains) > 0 =>
              LET d == DecodeString(config.SingleContains)
              IN /\ \A s \in SingleContainsStrings :
                       out = OutcomeWith([config EXCEPT !.SingleContainsString = s],
                                         Deref(scanner.regex))
                 /\ (d.ok /\ Len(d.bytes) > 0) =>
                       /\ Status \in {SCAN_SUCCESS, SCAN_SUCCESS_NOTCONTAIN}
                       /\ Status = SCAN_SUCCESS <=> Contains(ret, d.bytes)
        /\ (Len(config.SingleContains) = 0 /\ Len(config.SingleContainsString) > 0) =>
              /\ Status \in {SCAN_SUCCESS, SCAN_SUCCESS_NOTCONTAIN}
              /\ Status = SCAN_SUCCESS <=> Contains(ret, config.SingleContainsString)

\* C19 witness: single-contain is the base64 of a, single-contain-string is
\* b, the response has a b and no a, and the call returned
\* SUCCESS_NOT_CONTAIN
C19_Witness ==
    /\ AtAcceptance
    /\ config.SingleContains = <<89, 81, 61, 61>>
    /\ config.SingleContainsString = <<98>>
    /\ ret = <<98, 98>>
    /\ Status = SCAN_SUCCESS_NOTCONTAIN

\* C20: when a substring filter is configured the pattern has no influence
\* on Banner.Scan: with any other pattern that compiles, the same response
\* gives the same status, result and error.
C20_PatternIgnoredWithFilter ==
    (AtAcceptance /\ ASubstringFilter(config)) =>
        \A p \in Patterns :
            Compile(p).ok => out = OutcomeWith(config, Compile(p))

\* C20 witness: the pattern ^a does not match the response b, the literal
\* filter b does, and the call returned SUCCESS
C20_Witness ==
    /\ AtAcceptance
    /\ config.Pattern = <<94, 97>>
    /\ config.SingleContainsString = <<98>>
    /\ config.SingleContains = <<>>
    /\ ret = <<98>>
    /\ ~Match(Deref(scanner.regex), ret)
    /\ Status = SCAN_SUCCESS

====
